---------------------------- MODULE Spec2Model ----------------------------
(***************************************************************************)
(* State-machine model of backend/src/controllers/auth.controllers.ts:     *)
(* signup, verifyEmail, login, setup2FA, verify2FA, confirm2FA,            *)
(* disable2FA, logout, and the middlewares protect and restrictTo.         *)
(*                                                                         *)
(* Time is counted in TOTP steps of 30 seconds (the speakeasy default), so *)
(* '5m' is 10 steps and '1d' is 2880 steps.  A JSON web token is the       *)
(* record of its claims together with the key it was signed with; strings  *)
(* are TLA+ strings, so jwt_secret + user.password is string               *)
(* concatenation, as in the source.                                        *)
(***************************************************************************)
EXTENDS Integers, Sequences, FiniteSets, TLC

---------------------------------------------------------------------------
(* Bounds of the model *)

\* ObjectIds the store hands out during a run (ids are never reused).
MaxUsers == 2
\* Tokens the clients hold on to (responses received and kept).
MaxTokens == 1
\* Requests handled at the same time (the interleaved handlers).
MaxRequests == 2
\* Steps the clock is moved on by one at a time (the stepped clock).
MaxSteps == 3

\* The instants (in TOTP steps) the clock is sampled at: the start, and a
\* day later, when every token issued at the start has expired.
Instants == {0, 2880}

---------------------------------------------------------------------------
(* Configuration and literals of the source *)

\* process.env.JWT_SECRET
jwt_secret == "JWT_SECRET"
\* process.env.JWT_EXPIRES_IN, in TOTP steps (ten minutes)
jwt_expiresIn == 20
\* expiresIn: '5m' of the tempToken
StepUpTTL == 10
\* expiresIn: '1d' of the verification token
VerifyTTL == 2880
\* process.env.COOKIE_EXPIRES_IN (days) * 24 * 60 * 60 * 1000 ms, in TOTP steps
CookieTTL == 2880
\* window: 1 of speakeasy.totp.verify
TotpWindow == 1

\* JavaScript's undefined; as a string operand of + it reads "undefined".
Undefined == "undefined"

Roles == {"user", "admin"}
\* base32 secrets speakeasy.generateSecret may return
Secrets == {"KRSXG5A", "MFRGGZA"}

---------------------------------------------------------------------------
(* Request inputs *)

Emails == {"a@x.com", "b@x.com", "not-an-email"}
Passwords == {"longpass1", "longpass2", "short"}

\* Signup bodies: the well-formed ones, and one per field that fails the
\* schema.
ValidSignupBodies ==
    {[name |-> "Ann", email |-> e, password |-> "longpass1"] :
        e \in {"a@x.com", "b@x.com"}}

InvalidSignupBodies ==
    {[name |-> "A", email |-> "b@x.com", password |-> "longpass1"],
     [name |-> "Ann", email |-> "not-an-email", password |-> "longpass1"],
     [name |-> "Ann", email |-> "b@x.com", password |-> "short"]}

\* z.string().email(): the sample's well-formed addresses
IsEmail(s) == s \in {"a@x.com", "b@x.com"}

signupSchema(body) ==
    /\ Len(body.name) >= 2
    /\ IsEmail(body.email)
    /\ Len(body.password) >= 8

loginSchema(body) ==
    /\ IsEmail(body.email)
    /\ Len(body.password) >= 8

\* body.token is Undefined when the field is missing
enable2FASchema(body) ==
    /\ body.token # Undefined
    /\ Len(body.code) = 6

---------------------------------------------------------------------------
(* The User model (models/user.models.ts, outside this file) *)

\* pre-save hook: the password is stored as a one-way hash
Hash(pw) == "$2b$" \o pw

comparePassword(user, candidate) == Hash(candidate) = user.password

\* User.create: schema defaults of a new document
NewUser(id, body) ==
    [id |-> id, name |-> body.name, email |-> body.email,
     password |-> Hash(body.password), isEmailVerified |-> FALSE,
     role |-> "user", twoFactorEnabled |-> FALSE,
     twoFactorSecret |-> Undefined]

\* A default read leaves out the select:false paths password and
\* twoFactorSecret; .select('+password') / .select('+twoFactorSecret')
\* puts one back.
DefaultRead(doc) ==
    [doc EXCEPT !.password = Undefined, !.twoFactorSecret = Undefined]

SelectPassword(doc) == [doc EXCEPT !.twoFactorSecret = Undefined]

SelectTwoFactorSecret(doc) == [doc EXCEPT !.password = Undefined]

\* req.user when no identity is attached
NoUser ==
    [id |-> 0, name |-> "", email |-> "", password |-> Undefined,
     isEmailVerified |-> FALSE, role |-> "", twoFactorEnabled |-> FALSE,
     twoFactorSecret |-> Undefined]

\* An account provisioned before the run: verified, 2FA off.
SeedUser ==
    [id |-> 1, name |-> "Root", email |-> "a@x.com",
     password |-> Hash("longpass1"), isEmailVerified |-> TRUE,
     role |-> "user", twoFactorEnabled |-> FALSE,
     twoFactorSecret |-> Undefined]

---------------------------------------------------------------------------
(* jsonwebtoken *)

\* '' / a missing token
EmptyTok == [id |-> 0, key |-> "", iat |-> 0, exp |-> 0]
\* a string that is no JWT
Garbage == [id |-> 0, key |-> "garbage", iat |-> 0, exp |-> 0]

\* jwt.sign({id}, key, {expiresIn: ttl}) at time t
jwtSign(id, key, ttl, t) == [id |-> id, key |-> key, iat |-> t, exp |-> t + ttl]

\* (mutation) the signature is not checked
jwtVerify_NoSignature(tok, key, t) ==
    /\ tok.id # 0
    /\ t < tok.exp

\* (mutation) the expiry is not checked
jwtVerify_NoExpiry(tok, key, t) ==
    /\ tok.id # 0
    /\ tok.key = key

\* jwt.verify(token, key) at time t does not throw
jwtVerify(tok, key, t) ==
    /\ tok.id # 0
    /\ tok.key = key
    /\ t < tok.exp

\* jwt.decode(token) returns a payload with an id
jwtDecodes(tok) == tok.id # 0

signToken(id, t) == jwtSign(id, jwt_secret, jwt_expiresIn, t)

---------------------------------------------------------------------------
(* speakeasy *)

Digit(n) ==
    CASE n = 0 -> "0" [] n = 1 -> "1" [] n = 2 -> "2" [] n = 3 -> "3"
      [] n = 4 -> "4" [] n = 5 -> "5" [] n = 6 -> "6" [] n = 7 -> "7"
      [] n = 8 -> "8" [] OTHER -> "9"

RECURSIVE Decimal(_, _)
Decimal(n, width) ==
    IF width = 0 THEN "" ELSE Decimal(n \div 10, width - 1) \o Digit(n % 10)

\* The HMAC of a secret, abstracted to a number that tells the sampled
\* secrets apart.
SecretSeed(secret) == IF secret = "KRSXG5A" THEN 100000 ELSE 500000

\* The 6-digit code of a secret at a counter (time step)
Totp(secret, counter) == Decimal(SecretSeed(secret) + counter, 6)

\* (mutation) every code passes
totpVerify_Always(secret, code, t) == TRUE

\* (mutation) the window is one step too wide
totpVerify_Window2(secret, code, t) ==
    \E c \in (t - TotpWindow - 1)..(t + TotpWindow + 1) : Totp(secret, c) = code

\* speakeasy.totp.verify({secret, token: code, window}) at time t
totpVerify(secret, code, t) ==
    \E c \in (t - TotpWindow)..(t + TotpWindow) : Totp(secret, c) = code

---------------------------------------------------------------------------
(* State *)

VARIABLES
    users,      \* the User collection: _id -> document
    nextId,     \* ObjectIds handed out so far
    now,        \* the clock, in TOTP steps
    wallet,     \* tokens handed to clients in responses, with the field
                \* of the response that carried each and whether verify2FA
                \* has accepted it
    outbox,     \* emails handed to SendEmail
    req,        \* the request being handled
    res,        \* its response (status 0: none sent yet)
    emailVerified, \* history: the ids verifyEmail has marked verified
    inflight    \* requests handled concurrently: what each has read so far

vars == <<users, nextId, now, wallet, outbox, req, res, emailVerified, inflight>>

NoCookie == [set |-> FALSE, value |-> EmptyTok, expires |-> 0]

NoPublicUser == [id |-> 0, name |-> "", email |-> "", role |-> ""]

PublicUser(u) == [id |-> u.id, name |-> u.name, email |-> u.email, role |-> u.role]

\* res.status(status).json({message, ...}) with no cookie and no token
Respond(status, message) ==
    [status |-> status, message |-> message, cookie |-> NoCookie,
     token |-> EmptyTok, tempToken |-> EmptyTok, twoFactorEnabled |-> FALSE,
     user |-> NoPublicUser, secret |-> Undefined]

NoResponse == Respond(0, "")

\* What the model keeps of a request: the handler, its inputs, the identity
\* protect attached (req.user) and the number of calls of next.
Request(op, in) ==
    [op |-> op, name |-> in.name, email |-> in.email, password |-> in.password,
     token |-> in.token, cookie |-> in.cookie, code |-> in.code,
     bodyToken |-> in.bodyToken,
     roles |-> in.roles, fault |-> in.fault, user |-> NoUser, next |-> 0]

NoInput ==
    [name |-> "", email |-> "", password |-> "", token |-> EmptyTok,
     cookie |-> EmptyTok, bodyToken |-> Undefined,
     code |-> "", roles |-> {}, fault |-> "none"]

\* in.fault names a collaborator that rejects during the request: "store"
\* (a lookup, create or save), "email" (SendEmail), or "none".

ById(id) == users[id]
Exists(id) == id \in DOMAIN users
ByEmail(email) == {id \in DOMAIN users : users[id].email = email}
\* User.findOne({email}), when a document has the email
FindOne(email) == ById(CHOOSE id \in ByEmail(email) : TRUE)

\* The tokens a client can put into a request: those it was handed, those it
\* was mailed, one it signed itself with a key of its own, a string that
\* is no token, and none.
ForgedTok(id) == [id |-> id, key |-> "attacker-key", iat |-> 0, exp |-> 1000000]

Presentable ==
    {w.tok : w \in wallet} \cup {m.token : m \in outbox}
        \cup {ForgedTok(id) : id \in DOMAIN users} \cup {Garbage, EmptyTok}

\* Codes a client can type: the codes an authenticator whose clock is at
\* most two steps off shows for a stored secret, a wrong code and a code
\* that is too short.
Codes ==
    {Totp(users[id].twoFactorSecret, t) :
        id \in {i \in DOMAIN users : users[i].twoFactorSecret # Undefined},
        t \in (now - 2)..(now + 2)}
      \cup {"000000", "12345"}

\* The codes an authenticator with the right clock shows
CurrentCodes ==
    {Totp(users[id].twoFactorSecret, now) :
        id \in {i \in DOMAIN users : users[i].twoFactorSecret # Undefined}}

\* The role lists routes are mounted with
RoleSets == {{"admin"}, {"user", "admin"}}

\* Requests are handled one at a time, each to completion.
\* No request is being handled.
Idle == req.op = "none"
\* A request that passed protect and waits for its handler.
Pending == res.status = 0 /\ req.next > 0 /\ req.user # NoUser

HasRoom(held) == Cardinality(held) < MaxTokens

\* The requests that may be in flight together, and one that is not
Slots == 1..MaxRequests
FreeSlot == [op |-> "none", user |-> NoUser, code |-> ""]

\* What a client holds after a response that carried a token: the token
\* too, when it has room for one more.  used: verify2FA has answered 200
\* to the token.
Keep(held, tok, field) ==
    IF (\E w \in held : w.tok = tok) \/ ~HasRoom(held)
    THEN held
    ELSE held \cup {[tok |-> tok, field |-> field, used |-> FALSE]}

\* The tokens held, the one verify2FA has just accepted marked
Used(tok) ==
    {IF w.tok = tok THEN [w EXCEPT !.used = TRUE] ELSE w : w \in wallet}

Init ==
    /\ users = (1 :> SeedUser)
    /\ nextId = 1
    /\ now = 0
    /\ wallet = {}
    /\ outbox = {}
    /\ req = Request("none", NoInput)
    /\ res = NoResponse
    /\ emailVerified = {}
    /\ inflight = [s \in Slots |-> FreeSlot]

---------------------------------------------------------------------------
(* Handlers *)

\* (mutation) the duplicate check is missing
userExists_Never(email) == FALSE

\* const userExists = await User.findOne({email}); if(userExists)
userExists(email) == ByEmail(email) # {}

\* SIGN UP
signup(body, fault) ==
    /\ Idle
    /\ req' = Request("signup", [NoInput EXCEPT !.name = body.name,
                                  !.email = body.email,
                                  !.password = body.password, !.fault = fault])
    /\ IF ~signupSchema(body)
       THEN /\ res' = Respond(400, "ZodError")
            /\ UNCHANGED <<users, nextId, outbox>>
       ELSE IF fault = "store"
       THEN /\ res' = Respond(500, "Something went wrong")
            /\ UNCHANGED <<users, nextId, outbox>>
       ELSE IF userExists(body.email)
       THEN /\ res' = Respond(400, "Email is already registered")
            /\ UNCHANGED <<users, nextId, outbox>>
       ELSE LET newUser == NewUser(nextId + 1, body)
                verificationToken ==
                    jwtSign(newUser.id, jwt_secret \o newUser.password,
                            VerifyTTL, now)
            IN  /\ nextId < MaxUsers
                /\ users' = users @@ (newUser.id :> newUser)
                /\ nextId' = nextId + 1
                /\ IF fault = "email"
                   THEN /\ res' = Respond(500, "Something went wrong")
                        /\ UNCHANGED outbox
                   ELSE /\ res' = Respond(201, "Verification email sent")
                        /\ outbox' = outbox \cup
                               {[to |-> newUser.email, token |-> verificationToken]}
    /\ UNCHANGED <<now, wallet, emailVerified, inflight>>


\* VERIFY EMAIL
verifyEmail(token, fault) ==
    /\ Idle
    /\ req' = Request("verifyEmail", [NoInput EXCEPT !.token = token, !.fault = fault])
    /\ IF ~jwtDecodes(token)
       THEN /\ res' = Respond(400, "Inavlid token")
            /\ UNCHANGED <<users, emailVerified>>
       ELSE IF fault = "store"
       THEN /\ res' = Respond(400, "Token is invalid, or token is expired")
            /\ UNCHANGED <<users, emailVerified>>
       ELSE IF ~Exists(token.id)
       THEN /\ res' = Respond(400, "User with token not found")
            /\ UNCHANGED <<users, emailVerified>>
       ELSE LET user == DefaultRead(ById(token.id))
            IN  IF ~jwtVerify(token, jwt_secret \o user.password, now)
                THEN /\ res' = Respond(400, "Token is invalid, or token is expired")
                     /\ UNCHANGED <<users, emailVerified>>
                ELSE IF user.isEmailVerified
                THEN /\ res' = Respond(400, "Email is already verified")
                     /\ UNCHANGED <<users, emailVerified>>
                ELSE /\ users' = [users EXCEPT ![user.id].isEmailVerified = TRUE]
                     /\ res' = Respond(200, "Email verified successfully")
                     /\ emailVerified' = emailVerified \cup {user.id}
    /\ UNCHANGED <<nextId, now, wallet, outbox, inflight>>

\* The cookie login and verify2FA set
SessionCookie(token) == [set |-> TRUE, value |-> token, expires |-> now + CookieTTL]

\* (mutation) the password is not compared
invalidCredentials_UserOnly(body) == ByEmail(body.email) = {}

\* if(!user || !(await user.comparePassword(password)))
invalidCredentials(body) ==
    \/ ByEmail(body.email) = {}
    \/ ~comparePassword(SelectPassword(FindOne(body.email)), body.password)

\* (mutation) the verification check is missing
emailNotVerified_Never(user) == FALSE

\* if(!user.isEmailVerified)
emailNotVerified(user) == ~user.isEmailVerified

\* (mutation) the 2FA branch also sets the cookie
twoFactorRequired_WithCookie(tempToken) ==
    [Respond(200, "2FA required") EXCEPT
        !.tempToken = tempToken, !.twoFactorEnabled = TRUE,
        !.cookie = SessionCookie(tempToken)]

\* The response of the 2FA branch
twoFactorRequired(tempToken) ==
    [Respond(200, "2FA required") EXCEPT
        !.tempToken = tempToken, !.twoFactorEnabled = TRUE]

\* The response of a completed login
loggedIn(message, token, user) ==
    [Respond(200, message) EXCEPT
        !.cookie = SessionCookie(token), !.token = token,
        !.user = PublicUser(user)]

login(body, fault) ==
    /\ Idle
    /\ req' = Request("login", [NoInput EXCEPT !.email = body.email,
                                 !.password = body.password, !.fault = fault])
    /\ IF ~loginSchema(body)
       THEN /\ res' = Respond(400, "Validation failed")
            /\ UNCHANGED wallet
       ELSE IF fault = "store"
       THEN /\ res' = Respond(500, "Something went wrong")
            /\ UNCHANGED wallet
       ELSE IF invalidCredentials(body)
       THEN /\ res' = Respond(401, "Invalid email or password")
            /\ UNCHANGED wallet
       ELSE LET user == SelectPassword(FindOne(body.email))
            IN  IF emailNotVerified(user)
                THEN /\ res' = Respond(401, "Please verify your email to login")
                     /\ UNCHANGED wallet
                ELSE IF user.twoFactorEnabled
                THEN LET tempToken == jwtSign(user.id, jwt_secret, StepUpTTL, now)
                     IN  /\ res' = twoFactorRequired(tempToken)
                         /\ wallet' = Keep(wallet, tempToken, "tempToken")
                ELSE LET token == signToken(user.id, now)
                     IN  /\ res' = loggedIn("Login successfull", token, user)
                         /\ wallet' = Keep(wallet, token, "token")
    /\ UNCHANGED <<users, nextId, now, outbox, emailVerified, inflight>>

\* (mutation) the check of the flag is missing
alreadyEnabled_Never(user) == FALSE

\* if(user.twoFactorEnabled)
alreadyEnabled(user) == user.twoFactorEnabled

\* SETUP 2 FACTOR AUTH, mounted behind protect
setup2FA(secret, fault) ==
    /\ Pending /\ req.op = "protect"
    /\ req' = [req EXCEPT !.op = "setup2FA", !.fault = fault]
    /\ IF fault = "store"
       THEN /\ res' = Respond(500, "Something went wrong")
            /\ UNCHANGED users
       ELSE IF ~Exists(req.user.id)
       THEN /\ res' = Respond(404, "User not found")
            /\ UNCHANGED users
       ELSE LET user == DefaultRead(ById(req.user.id))
            IN  IF alreadyEnabled(user)
                THEN /\ res' = Respond(400, "2FA already enabled")
                     /\ UNCHANGED users
                ELSE /\ users' = [users EXCEPT ![user.id].twoFactorSecret = secret]
                     /\ res' = [Respond(200, "") EXCEPT !.secret = secret]
    /\ UNCHANGED <<nextId, now, wallet, outbox, emailVerified, inflight>>

\* Verify 2 Factor Authentication
verify2FA(body, fault) ==
    /\ Idle
    /\ req' = Request("verify2FA", [NoInput EXCEPT !.token = body.tempToken,
                                     !.code = body.code, !.fault = fault])
    /\ IF ~jwtVerify(body.tempToken, jwt_secret, now) \/ fault = "store"
       THEN /\ res' = Respond(401, "Invalid or expired token")
            /\ UNCHANGED wallet
       ELSE IF \/ ~Exists(body.tempToken.id)
               \/ SelectTwoFactorSecret(ById(body.tempToken.id)).twoFactorSecret
                      = Undefined
       THEN /\ res' = Respond(400, "Invalid token")
            /\ UNCHANGED wallet
       ELSE LET user == SelectTwoFactorSecret(ById(body.tempToken.id))
                verified == totpVerify(user.twoFactorSecret, body.code, now)
                token == signToken(user.id, now)
            IN  IF ~verified
                THEN /\ res' = Respond(401, "Invalid 2fA code")
                     /\ UNCHANGED wallet
                ELSE /\ res' = loggedIn("success", token, user)
                     /\ wallet' = Keep(Used(body.tempToken), token, "token")
    /\ UNCHANGED <<users, nextId, now, outbox, emailVerified, inflight>>

\* CONFIRM 2 FACTOR AUTH, mounted behind protect
confirm2FA(body, fault) ==
    /\ Pending /\ req.op = "protect"
    /\ req' = [req EXCEPT !.op = "confirm2FA", !.code = body.code,
                          !.bodyToken = body.token, !.fault = fault]
    /\ IF ~enable2FASchema(body)
       THEN /\ res' = Respond(400, "Validation failed")
            /\ UNCHANGED users
       ELSE IF fault = "store"
       THEN /\ res' = Respond(500, "Something went wrong")
            /\ UNCHANGED users
       ELSE IF \/ ~Exists(req.user.id)
               \/ SelectTwoFactorSecret(ById(req.user.id)).twoFactorSecret = Undefined
       THEN /\ res' = Respond(404, "User not found or 2FA not setup")
            /\ UNCHANGED users
       ELSE LET user == SelectTwoFactorSecret(ById(req.user.id))
                verified == totpVerify(user.twoFactorSecret, body.code, now)
            IN  IF ~verified
                THEN /\ res' = Respond(401, "invalid 2FA code")
                     /\ UNCHANGED users
                ELSE /\ users' = [users EXCEPT ![user.id].twoFactorEnabled = TRUE]
                     /\ res' = Respond(200, "2FA Enabled successfully")
    /\ UNCHANGED <<nextId, now, wallet, outbox, emailVerified, inflight>>

\* (mutation) the secret is left in place
disabled_FlagOnly(doc) == [doc EXCEPT !.twoFactorEnabled = FALSE]

\* (mutation) the flag is left set
disabled_SecretOnly(doc) == [doc EXCEPT !.twoFactorSecret = Undefined]

\* user.twoFactorEnabled = false; user.twoFactorSecret = undefined;
disabled(doc) ==
    [doc EXCEPT !.twoFactorEnabled = FALSE, !.twoFactorSecret = Undefined]

\* DISABLE 2 FACTOR AUTH, mounted behind protect
disable2FA(fault) ==
    /\ Pending /\ req.op = "protect"
    /\ req' = [req EXCEPT !.op = "disable2FA", !.fault = fault]
    /\ IF fault = "store"
       THEN /\ res' = Respond(500, "Something went wrong")
            /\ UNCHANGED users
       ELSE IF ~Exists(req.user.id)
       THEN /\ res' = Respond(404, "User not found")
            /\ UNCHANGED users
       ELSE LET user == DefaultRead(ById(req.user.id))
            IN  IF ~user.twoFactorEnabled
                THEN /\ res' = Respond(400, "2FA not enabled")
                     /\ UNCHANGED users
                ELSE /\ users' = [users EXCEPT ![user.id] = disabled(@)]
                     /\ res' = Respond(200, "2FA disabled successfully")
    /\ UNCHANGED <<nextId, now, wallet, outbox, emailVerified, inflight>>

\* (mutation) the cookie expires ten seconds from now (the line commented
\* out in the source), within the current step
LogoutCookie_TenSeconds == [set |-> TRUE, value |-> EmptyTok, expires |-> now + 1]

\* res.cookie('jwt', '', {expires: new Date(0), httpOnly: true})
LogoutCookie == [set |-> TRUE, value |-> EmptyTok, expires |-> 0]

\* LOGOUT
logout ==
    /\ Idle
    /\ req' = Request("logout", NoInput)
    /\ res' = [Respond(200, "Logged out successfully") EXCEPT
                  !.cookie = LogoutCookie]
    /\ UNCHANGED <<users, nextId, now, wallet, outbox, emailVerified, inflight>>

\* The token protect reads: the Authorization: Bearer header, else the cookie
BearerOrCookie(header, cookie) == IF header # EmptyTok THEN header ELSE cookie

protect(header, cookie, fault) ==
    LET token == BearerOrCookie(header, cookie)
        request == Request("protect", [NoInput EXCEPT !.token = header,
                                        !.cookie = cookie, !.fault = fault])
    IN  /\ Idle
        /\ IF token = EmptyTok
           THEN /\ res' = Respond(401, "You are not logged in!, Please log in to get access")
                /\ req' = request
           ELSE IF ~jwtVerify(token, jwt_secret, now) \/ fault = "store"
           THEN /\ res' = Respond(401, "Invalid token")
                /\ req' = request
           ELSE IF ~Exists(token.id)
           THEN /\ res' = Respond(401, "User does no longer exist")
                /\ req' = request
           ELSE /\ req' = [request EXCEPT !.user = DefaultRead(ById(token.id)),
                                          !.next = 1]
                /\ res' = NoResponse
        /\ UNCHANGED <<users, nextId, now, wallet, outbox, emailVerified, inflight>>

\* (mutation) the return before next() is missing
restrictTo_NoReturn(roles) ==
    /\ Pending
    /\ req.op = "protect"
    /\ res' = IF req.user.role \notin roles
              THEN Respond(403, "You do not have permission to perform this action")
              ELSE res
    /\ req' = [req EXCEPT !.op = "restrictTo", !.roles = roles,
                          !.next = req.next + 1]
    /\ UNCHANGED <<users, nextId, now, wallet, outbox, emailVerified, inflight>>

\* RESTRICTED TO, mounted behind protect
restrictTo(roles) ==
    /\ Pending
    /\ req.op = "protect"
    /\ IF req.user.role \notin roles
       THEN /\ res' = Respond(403, "You do not have permission to perform this action")
            /\ req' = [req EXCEPT !.op = "restrictTo", !.roles = roles]
       ELSE /\ req' = [req EXCEPT !.op = "restrictTo", !.roles = roles,
                                  !.next = req.next + 1]
            /\ res' = res
    /\ UNCHANGED <<users, nextId, now, wallet, outbox, emailVerified, inflight>>

---------------------------------------------------------------------------
(* The world around the controller *)

\* The response has gone out (or the request went on to a route outside
\* this file): the request is over.
Finish ==
    /\ ~Idle
    /\ req' = Request("none", NoInput)
    /\ res' = NoResponse
    /\ UNCHANGED <<users, nextId, now, wallet, outbox, emailVerified, inflight>>

\* A client drops a token it holds.
Forget(w) ==
    /\ Idle
    /\ w \in wallet
    /\ wallet' = wallet \ {w}
    /\ UNCHANGED <<users, nextId, now, outbox, req, res, emailVerified, inflight>>

\* The clock moves on to a later sampled instant.
Tick ==
    /\ Idle
    /\ \E t \in Instants : t > now /\ now' = t
    /\ UNCHANGED <<users, nextId, wallet, outbox, req, res, emailVerified, inflight>>

\* The store is shared with the rest of the application: a document is
\* removed (protect answers "User does no longer exist") ...
StoreRemove(id) ==
    /\ Exists(id)
    /\ Idle
    /\ users' = [i \in DOMAIN users \ {id} |-> users[i]]
    /\ UNCHANGED <<nextId, now, wallet, outbox, req, res, emailVerified, inflight>>

\* ... or its password is replaced (the verification token is signed with
\* the password hash so that this invalidates it).
StorePassword(id, pw) ==
    /\ Exists(id)
    /\ pw = "longpass2"
    /\ Hash(pw) # users[id].password
    /\ Idle
    /\ users' = [users EXCEPT ![id].password = Hash(pw)]
    /\ UNCHANGED <<nextId, now, wallet, outbox, req, res, emailVerified, inflight>>

\* The faults sampled by Spec: the email transport may reject; the store
\* answers.
StoreFaults == {"none"}
EmailFaults == {"none", "email"}

Next ==
    \/ \E body \in ValidSignupBodies, fault \in EmailFaults : signup(body, fault)
    \/ \E body \in InvalidSignupBodies : signup(body, "none")
    \/ \E token \in Presentable, fault \in StoreFaults : verifyEmail(token, fault)
    \/ \E email \in Emails, password \in Passwords, fault \in StoreFaults :
          login([email |-> email, password |-> password], fault)
    \/ \E secret \in Secrets, fault \in StoreFaults : setup2FA(secret, fault)
    \/ \E tempToken \in Presentable, code \in Codes, fault \in StoreFaults :
          /\ tempToken \in {w.tok : w \in wallet} \/ code = "000000"
          /\ verify2FA([tempToken |-> tempToken, code |-> code], fault)
    \/ \E token \in {Undefined, "x"}, code \in Codes, fault \in StoreFaults :
          /\ token = "x" \/ code \in CurrentCodes
          /\ confirm2FA([token |-> token, code |-> code], fault)
    \/ \E fault \in StoreFaults : disable2FA(fault)
    \/ logout
    \/ \E header \in Presentable, cookie \in Presentable, fault \in StoreFaults :
          /\ \/ cookie = EmptyTok
             \/ header = EmptyTok
             \/ header = Garbage /\ cookie \in {w.tok : w \in wallet}
          /\ protect(header, cookie, fault)
    \/ \E roles \in RoleSets : restrictTo(roles)
    \/ Finish
    \/ \E w \in wallet : Forget(w)
    \/ Tick
    \/ \E id \in DOMAIN users : StoreRemove(id)
    \/ \E id \in DOMAIN users, pw \in Passwords : StorePassword(id, pw)

Spec == Init /\ [][Next]_vars

---------------------------------------------------------------------------
(* The store rejecting *)

\* The requests with the store (a lookup, create or save) rejecting
NextFaults ==
    \/ \E body \in ValidSignupBodies : signup(body, "store")
    \/ \E token \in Presentable : verifyEmail(token, "store")
    \/ \E email \in Emails, password \in Passwords :
          login([email |-> email, password |-> password], "store")
    \/ \E secret \in Secrets : setup2FA(secret, "store")
    \/ \E tempToken \in Presentable :
          verify2FA([tempToken |-> tempToken, code |-> "000000"], "store")
    \/ \E token \in {Undefined, "x"} :
          confirm2FA([token |-> token, code |-> "000000"], "store")
    \/ disable2FA("store")
    \/ \E header \in Presentable : protect(header, EmptyTok, "store")
    \/ Next

SpecFaults == Init /\ [][NextFaults]_vars

---------------------------------------------------------------------------
(* Handlers interleaved: setup2FA, confirm2FA and disable2FA of the same  *)
(* user, each split at its awaits into the read (User.findById) and the   *)
(* rest (the checks, the assignments and user.save()).                    *)

\* user.save(): an update of the stored document that sets the paths the
\* handler modified and no other
save(id, changes) ==
    [users EXCEPT ![id] =
        [f \in DOMAIN @ |-> IF f \in DOMAIN changes THEN changes[f] ELSE @[f]]]

\* The paths of a document read from the store that count as modified:
\* those assigned a value other than the one read, and those assigned
\* without having been selected
modified(read, assigned, unselected) ==
    {f \in DOMAIN assigned : f \in unselected \/ assigned[f] # read[f]}

Restrict(f, S) == [x \in S |-> f[x]]

\* The identity protect attached to the interleaved requests
RaceUser == SeedUser.id

Release(s) == inflight' = [inflight EXCEPT ![s] = FreeSlot]

\* setup2FA: const user = await User.findById(userId)
setup2FA_findById(s) ==
    /\ inflight[s] = FreeSlot
    /\ Exists(RaceUser)
    /\ inflight' = [inflight EXCEPT ![s] =
            [op |-> "setup2FA", user |-> DefaultRead(ById(RaceUser)),
             code |-> ""]]
    /\ UNCHANGED <<users, nextId, now, wallet, outbox, req, res, emailVerified>>

\* setup2FA, from the check of the flag to the response
setup2FA_save(s, secret) ==
    /\ inflight[s].op = "setup2FA"
    /\ LET user == inflight[s].user
           assigned == [twoFactorSecret |-> secret]
       IN  IF alreadyEnabled(user)
           THEN UNCHANGED users
           ELSE users' = save(user.id,
                    Restrict(assigned,
                        modified(user, assigned, {"twoFactorSecret"})))
    /\ Release(s)
    /\ UNCHANGED <<nextId, now, wallet, outbox, req, res, emailVerified>>

\* confirm2FA: const user = await User.findById(userId).select('+twoFactorSecret')
confirm2FA_findById(s, code) ==
    /\ inflight[s] = FreeSlot
    /\ Exists(RaceUser)
    /\ inflight' = [inflight EXCEPT ![s] =
            [op |-> "confirm2FA",
             user |-> SelectTwoFactorSecret(ById(RaceUser)), code |-> code]]
    /\ UNCHANGED <<users, nextId, now, wallet, outbox, req, res, emailVerified>>

\* confirm2FA, from the check of the secret to the response
confirm2FA_save(s) ==
    /\ inflight[s].op = "confirm2FA"
    /\ LET user == inflight[s].user
           assigned == [twoFactorEnabled |-> TRUE]
       IN  IF user.twoFactorSecret = Undefined
           THEN UNCHANGED users
           ELSE IF ~totpVerify(user.twoFactorSecret, inflight[s].code, now)
           THEN UNCHANGED users
           ELSE users' = save(user.id,
                    Restrict(assigned, modified(user, assigned, {})))
    /\ Release(s)
    /\ UNCHANGED <<nextId, now, wallet, outbox, req, res, emailVerified>>

\* disable2FA: const user = await User.findById(userId)
disable2FA_findById(s) ==
    /\ inflight[s] = FreeSlot
    /\ Exists(RaceUser)
    /\ inflight' = [inflight EXCEPT ![s] =
            [op |-> "disable2FA", user |-> DefaultRead(ById(RaceUser)),
             code |-> ""]]
    /\ UNCHANGED <<users, nextId, now, wallet, outbox, req, res, emailVerified>>

\* disable2FA, from the check of the flag to the response
disable2FA_save(s) ==
    /\ inflight[s].op = "disable2FA"
    /\ LET user == inflight[s].user
           assigned == [twoFactorEnabled |-> FALSE,
                        twoFactorSecret |-> Undefined]
       IN  IF ~user.twoFactorEnabled
           THEN UNCHANGED users
           ELSE users' = save(user.id,
                    Restrict(assigned,
                        modified(user, assigned, {"twoFactorSecret"})))
    /\ Release(s)
    /\ UNCHANGED <<nextId, now, wallet, outbox, req, res, emailVerified>>

NextRace ==
    \/ \E s \in Slots : setup2FA_findById(s)
    \/ \E s \in Slots, secret \in Secrets : setup2FA_save(s, secret)
    \/ \E s \in Slots, code \in CurrentCodes \cup {"000000"} :
          confirm2FA_findById(s, code)
    \/ \E s \in Slots : confirm2FA_save(s)
    \/ \E s \in Slots : disable2FA_findById(s)
    \/ \E s \in Slots : disable2FA_save(s)

SpecRace == Init /\ [][NextRace]_vars

---------------------------------------------------------------------------
(* The clock moving on step by step *)

\* The clock moves on by one TOTP step.
Step ==
    /\ Idle
    /\ now < MaxSteps
    /\ now' = now + 1
    /\ UNCHANGED <<users, nextId, wallet, outbox, req, res, emailVerified, inflight>>

\* The 2FA requests of one account, with the tokens it was handed
NextTotp ==
    \/ login([email |-> SeedUser.email, password |-> "longpass1"], "none")
    \/ \E header \in {w.tok : w \in wallet} : protect(header, EmptyTok, "none")
    \/ \E secret \in Secrets : setup2FA(secret, "none")
    \/ \E code \in Codes : confirm2FA([token |-> "x", code |-> code], "none")
    \/ \E tempToken \in {w.tok : w \in wallet}, code \in Codes :
          verify2FA([tempToken |-> tempToken, code |-> code], "none")
    \/ disable2FA("none")
    \/ Finish
    \/ \E w \in wallet : Forget(w)
    \/ Step

SpecTotp == Init /\ [][NextTotp]_vars

---------------------------------------------------------------------------
(* Properties *)

\* The token protect read from the request being handled
PresentedToken == BearerOrCookie(req.token, req.cookie)

\* The document a login request names, if its credentials are right
Credentialed(id) ==
    /\ id \in ByEmail(req.email)
    /\ users[id].password = Hash(req.password)

\* C1: in every reachable state, every user with twoFactorEnabled = true
\* has a stored twoFactorSecret.
C1_EnabledHasSecret ==
    \A id \in DOMAIN users :
        users[id].twoFactorEnabled => users[id].twoFactorSecret # Undefined

\* confirm2FA has just enabled 2FA for a user
C1_Witness ==
    /\ req.op = "confirm2FA" /\ res.status = 200
    /\ \E id \in DOMAIN users : users[id].twoFactorEnabled

\* C2: protect attaches no identity and does not call next when the token
\* of the request is a step-up token (one login returned as tempToken).
C2_StepUpNeverPasses ==
    (/\ req.op = "protect"
     /\ \E w \in wallet : w.field = "tempToken" /\ w.tok = PresentedToken)
        => (req.user = NoUser /\ req.next = 0 /\ res.status = 401)

\* C3: a login with valid credentials for a verified user with 2FA enabled
\* sets no cookie and returns no session token: the response is the
\* 200 "2FA required" one, carrying only a tempToken that expires 5 minutes
\* (StepUpTTL) after now and the twoFactorEnabled flag.
C3_TwoFactorLogin ==
    \A id \in DOMAIN users :
        (/\ req.op = "login" /\ req.fault = "none"
         /\ Credentialed(id)
         /\ users[id].isEmailVerified /\ users[id].twoFactorEnabled)
            => /\ res.status = 200
               /\ res.cookie = NoCookie
               /\ res.token = EmptyTok
               /\ res.user = NoPublicUser
               /\ res.twoFactorEnabled
               /\ res.tempToken =
                      [id |-> id, key |-> jwt_secret, iat |-> now,
                       exp |-> now + StepUpTTL]

\* login has just answered a user with 2FA enabled
C3_Witness ==
    /\ req.op = "login" /\ res.status = 200
    /\ \E id \in DOMAIN users : Credentialed(id) /\ users[id].twoFactorEnabled

\* The verification tokens mailed so far
Mailed == {m.token : m \in outbox}

\* C4: isEmailVerified never goes from true to false; it goes from false to
\* true only in a verifyEmail step whose token is unexpired and signed with
\* jwt_secret + the password hash stored at that time; a verifyEmail with a
\* mailed token whose user's stored hash has changed since answers 400 and
\* leaves the user as it was.
C4_VerifiedOnlyByToken ==
    [][\A id \in DOMAIN users \cap DOMAIN users' :
          /\ users[id].isEmailVerified => users'[id].isEmailVerified
          /\ (~users[id].isEmailVerified /\ users'[id].isEmailVerified)
                => /\ req'.op = "verifyEmail"
                   /\ req'.token.id = id
                   /\ req'.token.key = jwt_secret \o users[id].password
                   /\ now < req'.token.exp
          /\ (/\ Idle /\ req'.op = "verifyEmail"
              /\ req'.token \in Mailed /\ req'.token.id = id
              /\ req'.token.key # jwt_secret \o users[id].password)
                => (res'.status = 400 /\ users'[id] = users[id])]_vars

\* verifyEmail has answered a mailed token whose user's password hash has
\* changed since the token was signed
C4_Witness ==
    /\ req.op = "verifyEmail" /\ res.status = 400
    /\ req.token \in Mailed
    /\ Exists(req.token.id)
    /\ req.token.key # jwt_secret \o users[req.token.id].password
    /\ ~users[req.token.id].isEmailVerified

\* C5: a verifyEmail with the token mailed at signup, unexpired and with
\* the password unchanged, leaves the user verified: the first one answers
\* 200, every later one answers 400 "Email is already verified".
C5_VerifiesOnce ==
    (/\ req.op = "verifyEmail" /\ req.fault = "none"
     /\ req.token \in Mailed
     /\ Exists(req.token.id)
     /\ req.token.key = jwt_secret \o users[req.token.id].password
     /\ now < req.token.exp)
        => /\ users[req.token.id].isEmailVerified
           /\ \/ res.status = 200
              \/ res = Respond(400, "Email is already verified")

\* C6: login and verify2FA hand out a token (session or step-up) only for a
\* user whose email is verified, and a user signup created is verified only
\* by a verifyEmail that succeeded; a login with the right credentials of
\* an unverified user answers 401 "Please verify your email to login" with
\* no token and no cookie.
C6_NoTokenUnverified ==
    /\ (/\ req.op \in {"login", "verify2FA"}
        /\ (res.token # EmptyTok \/ res.tempToken # EmptyTok \/ res.cookie.set))
           => LET id == IF res.token # EmptyTok THEN res.token.id
                        ELSE res.tempToken.id
              IN  /\ Exists(id)
                  /\ users[id].isEmailVerified
                  /\ id = SeedUser.id \/ id \in emailVerified
    /\ \A id \in DOMAIN users :
          (/\ req.op = "login" /\ req.fault = "none"
           /\ Credentialed(id)
           /\ ~users[id].isEmailVerified)
              => res = Respond(401, "Please verify your email to login")

\* login has turned away the right credentials of an unverified user
C6_Witness ==
    /\ req.op = "login" /\ res.status = 401
    /\ \E id \in DOMAIN users : Credentialed(id) /\ ~users[id].isEmailVerified

\* C7: a login with a well-formed body gets one and the same response, 401
\* "Invalid email or password" without cookie or token, when no user has
\* the email and when a user has it but the password is wrong, whatever
\* that user's isEmailVerified and twoFactorEnabled.
C7_SameInvalidCredentials ==
    (/\ req.op = "login" /\ req.fault = "none"
     /\ loginSchema(req)
     /\ \/ ByEmail(req.email) = {}
        \/ \E id \in ByEmail(req.email) : users[id].password # Hash(req.password))
        => res = Respond(401, "Invalid email or password")

\* login has turned away a wrong password for an unverified user
C7_Witness ==
    /\ req.op = "login" /\ res.status = 401
    /\ \E id \in ByEmail(req.email) :
          /\ users[id].password # Hash(req.password)
          /\ ~users[id].isEmailVerified

\* C8: protect calls next, with the looked-up user attached and no response
\* sent, exactly when the token of the request is signed with jwt_secret,
\* unexpired and names a user of the store; for every other request (no
\* token, expired, other signature, no such user) it answers 401, attaches
\* no identity and does not call next.
C8_ProtectGate ==
    [][(Idle /\ req'.op = "protect")
          => LET tok == BearerOrCookie(req'.token, req'.cookie)
                 ok == /\ tok.id # 0
                       /\ tok.key = jwt_secret
                       /\ now < tok.exp
                       /\ tok.id \in DOMAIN users
                       /\ req'.fault = "none"
             IN  IF ok
                 THEN /\ req'.next = 1
                      /\ req'.user.id = tok.id
                      /\ req'.user = DefaultRead(users[tok.id])
                      /\ res'.status = 0
                 ELSE /\ res'.status = 401
                      /\ req'.user = NoUser
                      /\ req'.next = 0]_vars

\* protect has turned away a validly signed, unexpired token of a user that
\* is gone
C8_Witness ==
    /\ req.op = "protect" /\ res.status = 401
    /\ PresentedToken.key = jwt_secret
    /\ now < PresentedToken.exp
    /\ PresentedToken.id # 0 /\ ~Exists(PresentedToken.id)

\* C9: restrictTo(roles) answers 403 without calling next when the role of
\* the identity is not in roles; otherwise it calls next once, sends no
\* response and leaves the identity as it was.
C9_RestrictTo ==
    [][(Pending /\ req'.op = "restrictTo")
          => IF req.user.role \in req'.roles
             THEN /\ req'.next = req.next + 1
                  /\ res' = res
                  /\ req'.user = req.user
             ELSE /\ res'.status = 403
                  /\ req'.next = req.next]_vars

\* restrictTo has let an identity through
C9_Witness ==
    /\ req.op = "restrictTo" /\ res.status = 0
    /\ req.user.role \in req.roles

\* What signup does to the store for a well-formed body with a new email:
\* one document more, unverified and with 2FA off
OneUserCreated ==
    \E id \in DOMAIN users' \ DOMAIN users :
        /\ DOMAIN users' = DOMAIN users \cup {id}
        /\ \A i \in DOMAIN users : users'[i] = users[i]
        /\ users'[id].email = req'.email
        /\ ~users'[id].isEmailVerified
        /\ ~users'[id].twoFactorEnabled

OneEmailSent ==
    \E m \in outbox' \ outbox :
        /\ outbox' = outbox \cup {m}
        /\ m.to = req'.email

NoSession(r) == r.cookie = NoCookie /\ r.token = EmptyTok /\ r.tempToken = EmptyTok

\* C10 as claimed: every signup with a well-formed body and a new email
\* creates one user (unverified, 2FA off), sends one verification email to
\* the address and answers 201 without token or cookie; with a registered
\* email it answers 400, creates no user and sends no email.
C10_SignupAlways201 ==
    [][(Idle /\ req'.op = "signup" /\ signupSchema(req'))
          => IF ByEmail(req'.email) = {}
             THEN /\ OneUserCreated
                  /\ OneEmailSent
                  /\ res'.status = 201 /\ NoSession(res')
             ELSE /\ res'.status = 400
                  /\ users' = users /\ outbox' = outbox]_vars

\* C10 as amended: the store answering, a signup with a well-formed body
\* and a new email creates one user (unverified, 2FA off); when SendEmail
\* succeeds one email has gone to the address and the answer is 201 without
\* token or cookie; when SendEmail rejects no email has gone out and the
\* answer is 500, the user staying created.  With a registered email the
\* answer is 400, no user is created and no email sent.
C10_Signup ==
    [][(Idle /\ req'.op = "signup" /\ signupSchema(req')
             /\ req'.fault # "store")
          => IF ByEmail(req'.email) = {}
             THEN /\ OneUserCreated
                  /\ NoSession(res')
                  /\ IF req'.fault = "email"
                     THEN res'.status = 500 /\ outbox' = outbox
                     ELSE res'.status = 201 /\ OneEmailSent
             ELSE /\ res'.status = 400
                  /\ users' = users /\ outbox' = outbox]_vars

\* signup has created a user and mailed the token
C10_Witness ==
    /\ req.op = "signup" /\ res.status = 201
    /\ \E m \in outbox : m.to = req.email /\ Exists(m.token.id)

\* C11: for an authenticated user with a stored pending secret and
\* twoFactorEnabled = false, a confirm2FA whose body is {code} (no other
\* field), the code being right for the stored secret, answers 200 and sets
\* twoFactorEnabled.
C11_ConfirmByCode ==
    [][(/\ Pending /\ req'.op = "confirm2FA" /\ req'.fault = "none"
        /\ req'.bodyToken = Undefined
        /\ Exists(req.user.id)
        /\ users[req.user.id].twoFactorSecret # Undefined
        /\ ~users[req.user.id].twoFactorEnabled
        /\ \E c \in (now - TotpWindow)..(now + TotpWindow) :
              Totp(users[req.user.id].twoFactorSecret, c) = req'.code)
          => /\ res'.status = 200
             /\ users'[req.user.id].twoFactorEnabled]_vars

\* C12: setup2FA for a user with twoFactorEnabled = false stores the secret
\* it returns and changes nothing else of any user; for a user with
\* twoFactorEnabled = true it answers 400 "2FA already enabled" and changes
\* no user.  The flag is set by confirm2FA only and cleared by disable2FA
\* only, so the 400 lasts from the confirmation to the next successful
\* disable2FA.
C12_Setup2FA ==
    [][/\ (Pending /\ req'.op = "setup2FA" /\ req'.fault = "none"
              /\ Exists(req.user.id))
          => IF users[req.user.id].twoFactorEnabled
             THEN /\ res' = Respond(400, "2FA already enabled")
                  /\ users' = users
             ELSE /\ res'.status = 200
                  /\ res'.secret \in Secrets
                  /\ users' = [users EXCEPT
                                 ![req.user.id].twoFactorSecret = res'.secret]
                  /\ ~users'[req.user.id].twoFactorEnabled
       /\ \A id \in DOMAIN users \cap DOMAIN users' :
             /\ (~users[id].twoFactorEnabled /\ users'[id].twoFactorEnabled)
                   => (req'.op = "confirm2FA" /\ res'.status = 200)
             /\ (users[id].twoFactorEnabled /\ ~users'[id].twoFactorEnabled)
                   => (req'.op = "disable2FA" /\ res'.status = 200)]_vars

\* setup2FA has turned away a user whose 2FA is enabled
C12_Witness ==
    /\ req.op = "setup2FA" /\ res.status = 400
    /\ Exists(req.user.id)
    /\ users[req.user.id].twoFactorEnabled
    /\ users[req.user.id].twoFactorSecret # Undefined

\* C13: a disable2FA for a user with twoFactorEnabled = true answers 200
\* and leaves the flag false and the secret absent; for a user whose flag
\* is false already it answers 400 "2FA not enabled" and changes no user.
\* While a user has the flag false and no secret, every verify2FA naming
\* that user fails (400 or 401), whatever the token and the code, with no
\* token, no cookie and no change.
C13_DisableThenVerify ==
    [][/\ (Pending /\ req'.op = "disable2FA" /\ req'.fault = "none"
              /\ Exists(req.user.id))
          => IF users[req.user.id].twoFactorEnabled
             THEN /\ res'.status = 200
                  /\ ~users'[req.user.id].twoFactorEnabled
                  /\ users'[req.user.id].twoFactorSecret = Undefined
             ELSE /\ res' = Respond(400, "2FA not enabled")
                  /\ users' = users
       /\ (/\ Idle /\ req'.op = "verify2FA"
           /\ Exists(req'.token.id)
           /\ ~users[req'.token.id].twoFactorEnabled
           /\ users[req'.token.id].twoFactorSecret = Undefined)
          => /\ res'.status \in {400, 401}
             /\ NoSession(res')
             /\ wallet' = wallet
             /\ users' = users]_vars

\* verify2FA has turned away the step-up token of a user whose 2FA has been
\* disabled since login issued it
C13_Witness ==
    /\ req.op = "verify2FA" /\ res.status = 400
    /\ \E w \in wallet : w.tok = req.token /\ w.field = "tempToken"
    /\ Exists(req.token.id)
    /\ ~users[req.token.id].twoFactorEnabled
    /\ users[req.token.id].twoFactorSecret = Undefined

\* C14: verify2FA answers 200 with a session token and the session cookie
\* exactly when the token is signed with jwt_secret and unexpired, its user
\* exists with a stored secret, and the code is within the window; a bad or
\* expired token gives 401, a missing user or secret 400 "Invalid token", a
\* wrong code 401 "Invalid 2fA code", each without token or cookie; no user
\* changes in any case.
C14_Verify2FA ==
    [][(Idle /\ req'.op = "verify2FA" /\ req'.fault = "none")
          => LET tok == req'.token
                 tokenOk == tok.id # 0 /\ tok.key = jwt_secret /\ now < tok.exp
                 userOk == /\ tok.id \in DOMAIN users
                           /\ users[tok.id].twoFactorSecret # Undefined
                 codeOk == \E c \in (now - TotpWindow)..(now + TotpWindow) :
                              Totp(users[tok.id].twoFactorSecret, c) = req'.code
                 session == [id |-> tok.id, key |-> jwt_secret, iat |-> now,
                             exp |-> now + jwt_expiresIn]
             IN  /\ users' = users
                 /\ IF ~tokenOk
                    THEN res' = Respond(401, "Invalid or expired token")
                            /\ wallet' = wallet
                    ELSE IF ~userOk
                    THEN res' = Respond(400, "Invalid token") /\ wallet' = wallet
                    ELSE IF ~codeOk
                    THEN res' = Respond(401, "Invalid 2fA code")
                            /\ wallet' = wallet
                    ELSE /\ res'.status = 200
                         /\ res'.token = session
                         /\ res'.cookie = [set |-> TRUE, value |-> session,
                                           expires |-> now + CookieTTL]]_vars

\* verify2FA has completed the login of a step-up token
C14_Witness ==
    /\ req.op = "verify2FA" /\ res.status = 200
    /\ \E w \in wallet : w.tok = req.token /\ w.field = "tempToken"
    /\ res.cookie.set /\ res.token.id = req.token.id

\* C17: once verify2FA has answered 200 to a step-up token, no later
\* verify2FA with the same token answers 200.
C17_StepUpConsumed ==
    [][(/\ Idle /\ req'.op = "verify2FA"
        /\ \E w \in wallet :
              w.tok = req'.token /\ w.field = "tempToken" /\ w.used)
          => res'.status # 200]_vars

\* C19: a signup that answers anything but 201 leaves the set of user
\* records as it was.
C19_SignupAllOrNothing ==
    [][(Idle /\ req'.op = "signup" /\ res'.status # 201)
          => users' = users]_vars

\* The tokens protect lets through
Accepted ==
    {t \in Presentable :
        /\ t.id # 0 /\ t.key = jwt_secret /\ now < t.exp
        /\ t.id \in DOMAIN users}

\* C20: logout answers 200 with an empty 'jwt' cookie that has expired
\* already, and changes nothing on the server: the users are as they were,
\* and protect lets through after it the tokens it let through before it.
C20_Logout ==
    [][(Idle /\ req'.op = "logout")
          => /\ res'.status = 200
             /\ res'.cookie.set
             /\ res'.cookie.value = EmptyTok
             /\ res'.cookie.expires <= now
             /\ users' = users
             /\ nextId' = nextId /\ outbox' = outbox /\ wallet' = wallet
             /\ Accepted' = Accepted]_vars

\* logout has answered while a client holds a session token protect lets
\* through
C20_Witness ==
    /\ req.op = "logout" /\ res.status = 200
    /\ \E w \in wallet : w.field = "token" /\ w.tok \in Accepted

\* The call that rejects is reached by the request r: the store's after
\* the validation (and, in verify2FA and protect, after jwt.verify), the
\* email transport's after the user was created
CallFails(r) ==
    \/ /\ r.fault = "store"
       /\ CASE r.op = "signup" -> signupSchema(r)
            [] r.op = "verifyEmail" -> r.token.id # 0
            [] r.op = "login" -> loginSchema(r)
            [] r.op = "verify2FA" ->
                  r.token.id # 0 /\ r.token.key = jwt_secret /\ now < r.token.exp
            [] r.op = "confirm2FA" ->
                  r.bodyToken # Undefined /\ Len(r.code) = 6
            [] r.op = "protect" ->
                  LET tok == BearerOrCookie(r.token, r.cookie)
                  IN  tok.id # 0 /\ tok.key = jwt_secret /\ now < tok.exp
            [] OTHER -> r.op \in {"setup2FA", "disable2FA"}
    \/ /\ r.fault = "email"
       /\ r.op = "signup" /\ signupSchema(r) /\ ByEmail(r.email) = {}

\* C15: in every operation, a persistence call or an email send that fails
\* is answered with status 500.
C15_FailuresAre500 ==
    [][(req'.op \notin {"none", req.op} /\ CallFails(req'))
          => res'.status = 500]_vars

\* C16: with the reads and the saves of concurrent setup2FA, confirm2FA
\* and disable2FA requests of one user interleaved, no stored user has
\* twoFactorEnabled = true without a twoFactorSecret.
C16_RaceEnabledHasSecret ==
    {id \in DOMAIN users :
        users[id].twoFactorEnabled /\ users[id].twoFactorSecret = Undefined} = {}

\* C18: confirm2FA and verify2FA, where they get as far as the code, answer
\* 200 exactly when the code is the stored secret's code of the current,
\* the previous or the next step, and turn away (401) the code of a step
\* two steps off; an accepted code is not used up: the secret and the clock
\* that decide are as they were, so the code passes again.
C18_TotpWindow ==
    [][/\ (/\ Idle /\ req'.op = "verify2FA"
           /\ req'.token.id # 0 /\ req'.token.key = jwt_secret
           /\ now < req'.token.exp
           /\ Exists(req'.token.id)
           /\ users[req'.token.id].twoFactorSecret # Undefined)
          => LET secret == users[req'.token.id].twoFactorSecret
                 inWindow == \E d \in {-1, 0, 1} :
                                req'.code = Totp(secret, now + d)
             IN  /\ (res'.status = 200) <=> inWindow
                 /\ ~inWindow => res' = Respond(401, "Invalid 2fA code")
                 /\ \A d \in {-2, 2} :
                       req'.code = Totp(secret, now + d) => res'.status = 401
                 /\ users'[req'.token.id].twoFactorSecret = secret
                 /\ now' = now
       /\ (/\ Pending /\ req'.op = "confirm2FA"
           /\ req'.bodyToken # Undefined /\ Len(req'.code) = 6
           /\ Exists(req.user.id)
           /\ users[req.user.id].twoFactorSecret # Undefined)
          => LET secret == users[req.user.id].twoFactorSecret
                 inWindow == \E d \in {-1, 0, 1} :
                                req'.code = Totp(secret, now + d)
             IN  /\ (res'.status = 200) <=> inWindow
                 /\ ~inWindow => res' = Respond(401, "invalid 2FA code")
                 /\ \A d \in {-2, 2} :
                       req'.code = Totp(secret, now + d) => res'.status = 401
                 /\ users'[req.user.id].twoFactorSecret = secret
                 /\ now' = now]_vars

\* verify2FA has accepted, for a token issued at an earlier step, the code
\* of the step before the current one
C18_Witness ==
    /\ req.op = "verify2FA" /\ res.status = 200
    /\ Exists(req.token.id)
    /\ req.code = Totp(users[req.token.id].twoFactorSecret, now - 1)
    /\ req.token.iat < now

=============================================================================
